---- MODULE Spec2Model ----
(***************************************************************************)
(* Model of intrusive-rs pointer_ops.rs and unsafe_ref.rs: the conversion  *)
(* between owning handles and raw addresses (PointerOps), the mutable      *)
(* access tiers (TryExclusivePointerOps / ExclusivePointerOps), the        *)
(* unchecked wrappers UnsafeRef / UnsafeMut and clone_pointer_from_raw.    *)
(*                                                                         *)
(* A behaviour is one collection bound to one DefaultPointerOps<Pointer>   *)
(* (variable ops) together with the client code around it: the client      *)
(* creates handles, clones and drops them, and the collection turns them   *)
(* into stored raw addresses and back.                                     *)
(***************************************************************************)
EXTENDS Integers, FiniteSets, Sequences, Bags, TLC

VARIABLES ops, heap, handles, stored, last, call

vars == <<ops, heap, handles, stored, last, call>>

\* ------------------------------------------------------------------ bounds
MaxObj == 1
MaxStrong == 2
MaxWeak == 1
MaxCopies == 2
MaxMeta == 1

\* Offset of the value inside the reference-counted allocation (the strong
\* and the weak counter come first); Rc::into_raw / Rc::from_raw add and
\* subtract it.
DataOffset == 16

Obj == 1..MaxObj
\* 0 is the metadata of a thin pointer (a sized value); the other values
\* stand for a vtable address or a slice length.
Metas == 0..MaxMeta

\* ------------------------------------------------- pointer representations
Kinds == {"Ref", "PinRef", "UnsafeRef", "PinUnsafeRef", "UnsafeMut",
          "PinUnsafeMut", "Box", "PinBox", "Rc", "PinRc", "Arc", "PinArc"}

PinKinds == {"PinRef", "PinUnsafeRef", "PinUnsafeMut", "PinBox", "PinRc", "PinArc"}

BaseOf(k) ==
  CASE k \in {"Ref", "PinRef"} -> "Ref"
    [] k \in {"UnsafeRef", "PinUnsafeRef"} -> "UnsafeRef"
    [] k \in {"UnsafeMut", "PinUnsafeMut"} -> "UnsafeMut"
    [] k \in {"Box", "PinBox"} -> "Box"
    [] k \in {"Rc", "PinRc"} -> "Rc"
    [] OTHER -> "Arc"

\* impls of ExclusivePointerOps (lines 174, 191, 210, 229)
ExclusiveKinds == {"UnsafeMut", "PinUnsafeMut", "Box", "PinBox"}
\* explicit impls of TryExclusivePointerOps (lines 248, 275, 302, 329)
CountedKinds == {"Rc", "PinRc", "Arc", "PinArc"}
UncheckedKinds == {"UnsafeRef", "PinUnsafeRef", "UnsafeMut", "PinUnsafeMut"}
OwningKinds == {"Box", "PinBox"} \cup CountedKinds

\* ------------------------------------------------------ raw pointer values
\* A raw pointer *const T / *mut T: address, metadata and mutability.
Ptr(a, m, mu) == [addr |-> a, meta |-> m, mut |-> mu]
NullPtr == Ptr(0, 0, FALSE)

\* `p as *const T`
AsConst(p) == Ptr(p.addr, p.meta, FALSE)
\* `p as *mut T`
AsMut(p) == Ptr(p.addr, p.meta, TRUE)

\* A handle (Box, Rc, Arc, &T, UnsafeRef, UnsafeMut, Weak): the pointer it
\* holds and whether it is wrapped in Pin.
Handle(t, a, m) == [type |-> t, pin |-> FALSE, addr |-> a, meta |-> m]

\* ------------------------------------------------------------ memory layout
\* Address of the allocation of object o.
AllocBase(o) == o * (4 * DataOffset)

\* Address of the value of object o (what a handle dereferences to).
ValueAddr(k, o) ==
  IF k \in CountedKinds THEN AllocBase(o) + DataOffset ELSE AllocBase(o)

\* The objects whose value lives at address a (none for a wild address).
ObjsAt(k, a) == {o \in Obj : ValueAddr(k, o) = a}

\* The objects whose allocation starts at address a.
ObjsOfAlloc(a) == {o \in Obj : AllocBase(o) = a}

\* --------------------------------------------------------------- the heap
\* heap[o]: state is "unalloc", "live", "dropped" (the value was destroyed,
\* the allocation is kept alive by Weak handles) or "freed"; strong and weak
\* are the counters of a reference-counted allocation (weak counts the Weak
\* handles, as Rc::weak_count reports it); drops counts the runs of the
\* value's destructor; freedBy is the type of the handle whose destruction
\* reclaimed the value; boxed says that an owning Box holds the object (it
\* is cleared by from_box and set again by into_box).
Unalloc == [state |-> "unalloc", strong |-> 0, weak |-> 0, meta |-> 0,
            drops |-> 0, freedBy |-> "none", boxed |-> FALSE]

Min(a, b) == IF a < b THEN a ELSE b

\* The value's destructor runs and, unless Weak handles remain, the
\* allocation is released. A second run is a double reclamation.
Reclaim(rec, by) ==
  [rec EXCEPT !.state = IF rec.weak = 0 THEN "freed" ELSE "dropped",
              !.strong = 0,
              !.drops = Min(rec.drops + 1, 2),
              !.freedBy = by]

\* Address a handle dereferences to (`&*p as *const T`).
Deref(h) ==
  IF h.type \in {"Rc", "Arc"}
  THEN Ptr(h.addr + DataOffset, h.meta, FALSE)
  ELSE Ptr(h.addr, h.meta, FALSE)

\* Faulty variant: the unchecked wrappers release their object like a Box does
DropHandle_wrappers_free(hp, h) ==
  [o \in Obj |->
     IF o \notin ObjsOfAlloc(h.addr) THEN hp[o]
     ELSE CASE h.type = "Ref" -> hp[o]
            [] h.type \in {"Box", "UnsafeRef", "UnsafeMut"} ->
                 Reclaim(hp[o], h.type)
            [] h.type \in {"Rc", "Arc"} ->
                 IF hp[o].strong > 1
                 THEN [hp[o] EXCEPT !.strong = @ - 1]
                 ELSE Reclaim(hp[o], h.type)
            [] OTHER ->
                 IF hp[o].weak > 1 \/ hp[o].state # "dropped"
                 THEN [hp[o] EXCEPT !.weak = IF @ > 0 THEN @ - 1 ELSE 0]
                 ELSE [hp[o] EXCEPT !.weak = 0, !.state = "freed"]]

\* The destructor of a handle. &T, UnsafeRef and UnsafeMut have none
\* (unsafe_ref.rs declares no Drop impl); Box reclaims its object; Rc and
\* Arc give up one strong reference and reclaim at zero; Weak gives up one
\* weak reference and releases the allocation of a destroyed value.
DropHandle(hp, h) ==
  [o \in Obj |->
     IF o \notin ObjsOfAlloc(h.addr) THEN hp[o]
     ELSE CASE h.type \in {"Ref", "UnsafeRef", "UnsafeMut"} -> hp[o]
            [] h.type = "Box" -> Reclaim(hp[o], "Box")
            [] h.type \in {"Rc", "Arc"} ->
                 IF hp[o].strong > 1
                 THEN [hp[o] EXCEPT !.strong = @ - 1]
                 ELSE Reclaim(hp[o], h.type)
            [] OTHER ->
                 IF hp[o].weak > 1 \/ hp[o].state # "dropped"
                 THEN [hp[o] EXCEPT !.weak = IF @ > 0 THEN @ - 1 ELSE 0]
                 ELSE [hp[o] EXCEPT !.weak = 0, !.state = "freed"]]

\* --------------------------------------------- std / unsafe_ref primitives
Pin_new_unchecked(h) == [h EXCEPT !.pin = TRUE]
Pin_into_inner_unchecked(h) == [h EXCEPT !.pin = FALSE]

Box_from_raw(p) == Handle("Box", p.addr, p.meta)
Box_into_raw(b) == Ptr(b.addr, b.meta, TRUE)

\* Rc and Arc hold the address of the allocation; the raw pointer is the
\* address of the value inside it.
Rc_from_raw(p) == Handle("Rc", p.addr - DataOffset, p.meta)
Rc_into_raw(rc) == Ptr(rc.addr + DataOffset, rc.meta, FALSE)
Arc_from_raw(p) == Handle("Arc", p.addr - DataOffset, p.meta)
Arc_into_raw(arc) == Ptr(arc.addr + DataOffset, arc.meta, FALSE)

\* `&*raw` and the coercion of &T to *const T
Ref_from_raw(p) == Handle("Ref", p.addr, p.meta)
Ref_into_raw(r) == Ptr(r.addr, r.meta, FALSE)

UnsafeRef_from_raw(p) == Handle("UnsafeRef", p.addr, p.meta)
UnsafeRef_into_raw(u) == Ptr(u.addr, u.meta, TRUE)
UnsafeRef_from_box(b) == UnsafeRef_from_raw(Box_into_raw(b))
UnsafeRef_into_box(u) == Box_from_raw(UnsafeRef_into_raw(u))
UnsafeRef_clone(u) == Handle("UnsafeRef", u.addr, u.meta)

UnsafeMut_from_raw(p) == Handle("UnsafeMut", p.addr, p.meta)
UnsafeMut_into_raw(u) == Ptr(u.addr, u.meta, TRUE)
UnsafeMut_from_box(b) == UnsafeMut_from_raw(Box_into_raw(b))
UnsafeMut_into_box(u) == Box_from_raw(UnsafeMut_into_raw(u))

\* ------------------------------------------------- PointerOps::from_raw
\* Faulty variant: the fat pointer is rebuilt from its address alone
from_raw_thin(k, raw) ==
  LET h == CASE BaseOf(k) = "Ref" -> Ref_from_raw(raw)
             [] BaseOf(k) = "UnsafeRef" -> UnsafeRef_from_raw(AsMut(raw))
             [] BaseOf(k) = "UnsafeMut" -> UnsafeMut_from_raw(AsMut(raw))
             [] BaseOf(k) = "Box" -> Box_from_raw(AsMut(raw))
             [] BaseOf(k) = "Rc" -> Rc_from_raw(raw)
             [] OTHER -> Arc_from_raw(raw)
      t == [h EXCEPT !.meta = 0]
  IN IF k \in PinKinds THEN Pin_new_unchecked(t) ELSE t

\* Faulty variant: every impl rebuilds the handle the way the Box impl does, taking
\* the raw pointer for the pointer the handle holds
from_raw_as_box(k, raw) ==
  LET h == Handle(BaseOf(k), raw.addr, raw.meta)
  IN IF k \in PinKinds THEN Pin_new_unchecked(h) ELSE h

from_raw(k, raw) ==
  CASE k = "Ref" -> Ref_from_raw(raw)
    [] k = "PinRef" -> Pin_new_unchecked(Ref_from_raw(raw))
    [] k = "UnsafeRef" -> UnsafeRef_from_raw(AsMut(raw))
    [] k = "PinUnsafeRef" -> Pin_new_unchecked(UnsafeRef_from_raw(AsMut(raw)))
    [] k = "UnsafeMut" -> UnsafeMut_from_raw(AsMut(raw))
    [] k = "PinUnsafeMut" -> Pin_new_unchecked(UnsafeMut_from_raw(AsMut(raw)))
    [] k = "Box" -> Box_from_raw(AsMut(raw))
    [] k = "PinBox" -> Pin_new_unchecked(Box_from_raw(AsMut(raw)))
    [] k = "Rc" -> Rc_from_raw(raw)
    [] k = "PinRc" -> Pin_new_unchecked(Rc_from_raw(raw))
    [] k = "Arc" -> Arc_from_raw(raw)
    [] OTHER -> Pin_new_unchecked(Arc_from_raw(raw))

\* ------------------------------------------------- PointerOps::into_raw
\* The result is the raw pointer and the heap after the call: every impl
\* hands the handle to the representation's own into_raw, which gives the
\* pointer out without running the handle's destructor.

\* Faulty variant: the impl takes the address and lets the handle go out of scope
into_raw_dropping(k, hp, h) ==
  [raw |-> AsConst(Deref(h)), heap |-> DropHandle(hp, h)]

into_raw(k, hp, h) ==
  LET raw ==
    CASE k = "Ref" -> Ref_into_raw(h)
      [] k = "PinRef" -> AsConst(Ref_into_raw(Pin_into_inner_unchecked(h)))
      [] k = "UnsafeRef" -> AsConst(UnsafeRef_into_raw(h))
      [] k = "PinUnsafeRef" ->
           AsConst(UnsafeRef_into_raw(Pin_into_inner_unchecked(h)))
      [] k = "UnsafeMut" -> AsConst(UnsafeMut_into_raw(h))
      [] k = "PinUnsafeMut" ->
           AsConst(UnsafeMut_into_raw(Pin_into_inner_unchecked(h)))
      [] k = "Box" -> AsConst(Box_into_raw(h))
      [] k = "PinBox" -> AsConst(Box_into_raw(Pin_into_inner_unchecked(h)))
      [] k = "Rc" -> Rc_into_raw(h)
      [] k = "PinRc" -> Rc_into_raw(Pin_into_inner_unchecked(h))
      [] k = "Arc" -> Arc_into_raw(h)
      [] OTHER -> Arc_into_raw(Pin_into_inner_unchecked(h))
  IN [raw |-> raw, heap |-> hp]

\* ------------------------------------------ ExclusivePointerOps::get_mut
\* Faulty variant: the projection is rebuilt from the address alone
get_mut_thin(value) == Ptr(value.addr, 0, TRUE)

\* default method: `value as *mut Self::Value`
get_mut(value) == AsMut(value)

\* ------------------------------------- TryExclusivePointerOps::try_get_mut
\* Rc::get_mut: Some(&mut T) iff Rc::is_unique, that is no Weak handle
\* exists and the strong count is 1.
Rc_get_mut(hp, rc) ==
  LET os == ObjsOfAlloc(rc.addr)
      unique == os # {} /\ \A o \in os : hp[o].weak = 0 /\ hp[o].strong = 1
  IN [present |-> unique,
      ptr |-> IF unique THEN AsMut(Deref(rc)) ELSE NullPtr]

\* Arc::get_mut: Some(&mut T) iff Arc::is_unique: the weak counter is locked
\* (which fails while a Weak handle exists) and the strong count read is 1.
Arc_get_mut(hp, arc) ==
  LET os == ObjsOfAlloc(arc.addr)
      locked == os # {} /\ \A o \in os : hp[o].weak = 0
      unique == locked /\ \A o \in os : hp[o].strong = 1
  IN [present |-> unique,
      ptr |-> IF unique THEN AsMut(Deref(arc)) ELSE NullPtr]

\* Faulty variant: the blanket impl answers None
blanket_try_get_mut_none(hp, value) ==
  [present |-> FALSE, ptr |-> NullPtr, heap |-> hp]

\* impl<E: ExclusivePointerOps> TryExclusivePointerOps for E
blanket_try_get_mut(hp, value) ==
  [present |-> TRUE, ptr |-> get_mut(value), heap |-> hp]

\* Faulty variant: the address is handed out without the uniqueness check
Rc_try_get_mut_unchecked(hp, value) ==
  [present |-> TRUE, ptr |-> AsMut(value), heap |-> hp]

\* Faulty variant: the temporary Rc is dropped instead of being turned back into
\* a raw pointer
Rc_try_get_mut_dropping(hp, value) ==
  LET rc == Rc_from_raw(value)
      ptr == Rc_get_mut(hp, rc)
  IN [present |-> ptr.present, ptr |-> ptr.ptr, heap |-> DropHandle(hp, rc)]

\* DefaultPointerOps<Rc<T>>: the temporary Rc is rebuilt, asked, and given
\* back with Rc::into_raw; dropping the raw pointer it returns does nothing.
Rc_try_get_mut(hp, value) ==
  LET rc == Rc_from_raw(value)
      ptr == Rc_get_mut(hp, rc)
      back == Rc_into_raw(rc)
  IN [present |-> ptr.present, ptr |-> ptr.ptr, heap |-> hp]

\* DefaultPointerOps<Pin<Rc<T>>>
PinRc_try_get_mut(hp, value) ==
  LET rc == Rc_from_raw(value)
      ptr == Rc_get_mut(hp, rc)
      back == Rc_into_raw(rc)
  IN [present |-> ptr.present, ptr |-> ptr.ptr, heap |-> hp]

\* DefaultPointerOps<Arc<T>>
Arc_try_get_mut(hp, value) ==
  LET arc == Arc_from_raw(value)
      ptr == Arc_get_mut(hp, arc)
      back == Arc_into_raw(arc)
  IN [present |-> ptr.present, ptr |-> ptr.ptr, heap |-> hp]

\* DefaultPointerOps<Pin<Arc<T>>>
PinArc_try_get_mut(hp, value) ==
  LET arc == Arc_from_raw(value)
      ptr == Arc_get_mut(hp, arc)
      back == Arc_into_raw(arc)
  IN [present |-> ptr.present, ptr |-> ptr.ptr, heap |-> hp]

\* Dispatch on the representation the policy object is bound to. &T and
\* UnsafeRef implement neither trait.
try_get_mut(k, hp, value) ==
  CASE k = "Rc" -> Rc_try_get_mut(hp, value)
    [] k = "PinRc" -> PinRc_try_get_mut(hp, value)
    [] k = "Arc" -> Arc_try_get_mut(hp, value)
    [] k = "PinArc" -> PinArc_try_get_mut(hp, value)
    [] OTHER -> blanket_try_get_mut(hp, value)

\* ------------------------------------------------------- Pointer::clone
NoHandle == Handle("none", 0, 0)

\* Faulty variant: the copy is bitwise, no strong count is taken and no
\* allocation is made
Clone_bitwise(hp, h, fresh) == [handle |-> h, heap |-> hp]

\* The representation's own duplication: Rc and Arc add one strong
\* reference; &T and UnsafeRef copy the address; Box<T: Clone> builds a new
\* allocation (object fresh).
Clone(hp, h, fresh) ==
  CASE h.type \in {"Rc", "Arc"} ->
         [handle |-> h,
          heap |-> [o \in Obj |->
                      IF o \in ObjsOfAlloc(h.addr)
                      THEN [hp[o] EXCEPT !.strong = @ + 1] ELSE hp[o]]]
    [] h.type = "Box" ->
         [handle |-> [h EXCEPT !.addr = AllocBase(fresh)],
          heap |-> [hp EXCEPT ![fresh] =
                      [Unalloc EXCEPT !.state = "live", !.meta = h.meta,
                                      !.boxed = TRUE]]]
    [] h.type = "UnsafeRef" ->
         [handle |-> [UnsafeRef_clone(h) EXCEPT !.pin = h.pin], heap |-> hp]
    [] OTHER -> [handle |-> h, heap |-> hp]

\* ------------------------------------------------ clone_pointer_from_raw
\* Faulty variant: the temporary handle is an ordinary local: it is destroyed when
\* the scope is left
PointerGuard_drop_releasing(k, hp, pointer) ==
  [raw |-> AsConst(Deref(pointer)), heap |-> DropHandle(hp, pointer)]

\* Faulty variant: the guard has no Drop impl, the handle in ManuallyDrop is
\* never turned back into its raw pointer
PointerGuard_drop_missing(k, hp, pointer) == [raw |-> NullPtr, heap |-> hp]

\* Drop for PointerGuard: the handle kept in ManuallyDrop is read out and
\* turned back into its raw pointer, which is discarded.
PointerGuard_drop(k, hp, pointer) == into_raw(k, hp, pointer)

\* Faulty variant: the temporary handle is returned as it is, without duplication
clone_pointer_from_raw_read(k, hp, ptr, panics, fresh) ==
  LET pointer == from_raw(k, ptr)
      guard == PointerGuard_drop(k, hp, pointer)
  IN [panicked |-> panics,
      handle |-> IF panics THEN NoHandle ELSE pointer,
      heap |-> guard.heap]

\* holder = PointerGuard { pointer: ManuallyDrop::new(from_raw(ptr)) };
\* holder.pointer.deref().clone(); then holder goes out of scope, on the
\* normal path and while a panic raised by clone unwinds.
clone_pointer_from_raw(k, hp, ptr, panics, fresh) ==
  LET pointer == from_raw(k, ptr)
      dup == IF panics THEN [handle |-> NoHandle, heap |-> hp]
             ELSE Clone(hp, pointer, fresh)
      guard == PointerGuard_drop(k, dup.heap, pointer)
  IN [panicked |-> panics, handle |-> dup.handle, heap |-> guard.heap]

\* ------------------------------------------------------------ bookkeeping
RECURSIVE SumBag(_, _)
SumBag(S, b) ==
  IF S = {} THEN 0
  ELSE LET x == CHOOSE y \in S : TRUE
       IN CopiesIn(x, b) + SumBag(S \ {x}, b)

\* Live handles other than Weak that point to object o.
HandleCount(o) ==
  SumBag({h \in BagToSet(handles) : h.addr = AllocBase(o) /\ h.type # "Weak"},
         handles)

\* Raw addresses of object o the collection stores.
StoredCount(o) ==
  SumBag({r \in BagToSet(stored) : r.addr = ValueAddr(ops, o)}, stored)

Copies(o) == HandleCount(o) + StoredCount(o)

Put(b, x) == b (+) SetToBag({x})
Take(b, x) == b (-) SetToBag({x})

FreeObjs == {o \in Obj : heap[o].state = "unalloc"}
NextFree == IF FreeObjs = {} THEN 0
            ELSE CHOOSE o \in FreeObjs : \A q \in FreeObjs : o <= q

\* The handle type a policy's Pointer is built from.
IsPointerOf(k, h) == h.type = BaseOf(k) /\ h.pin = (k \in PinKinds)

\* Record of the last operation: its name, the raw address it took or
\* returned, the pointer it observed or produced, the handle it consumed or
\* produced, whether it returned normally with a result, and the strong and
\* weak counts it found.
Last(op, raw, ptr, h, present, count, weak) ==
  [op |-> op, raw |-> raw, ptr |-> ptr, h |-> h, present |-> present,
   count |-> count, weak |-> weak]

StrongAt(hp, os) == IF os = {} THEN 0 ELSE hp[CHOOSE o \in os : TRUE].strong
WeakAt(hp, os) == IF os = {} THEN 0 ELSE hp[CHOOSE o \in os : TRUE].weak

\* The call the collection's execution context is inside of, for the
\* specification that takes try_get_mut and clone_pointer_from_raw one step
\* at a time: its position, the raw address it was given, the temporary
\* handle it rebuilt, the handle it is about to return, its answer, the
\* strong count its check read, the raw pointer the temporary handle was
\* turned back into, whether the temporary handle's destructor ran, and the
\* steps it has taken.
Idle ==
  [pc |-> "idle", op |-> "none", raw |-> NullPtr, h |-> NoHandle,
   res |-> NoHandle, present |-> FALSE, seen |-> 0, back |-> NullPtr,
   dtor |-> FALSE, trace |-> <<>>, count |-> 0, weak |-> 0]

\* ------------------------------------------------------------------ Init
Init ==
  /\ ops \in Kinds
  /\ heap = [o \in Obj |-> Unalloc]
  /\ handles = EmptyBag
  /\ stored = EmptyBag
  /\ last = Last("init", NullPtr, NullPtr, NoHandle, FALSE, 0, 0)
  /\ call = Idle

\* --------------------------------------------------------- client actions
\* Box::new / Rc::new / Arc::new / Pin::new(..) / a borrow, of a sized value
\* (m = 0) or coerced to an unsized one. The unchecked wrappers start from a
\* Box.
New(m) ==
  /\ FreeObjs # {}
  /\ LET o == NextFree
         t == IF ops \in UncheckedKinds THEN "Box" ELSE BaseOf(ops)
         b == Handle(t, AllocBase(o), m)
         h == IF ops \in PinKinds /\ ops \notin UncheckedKinds
              THEN Pin_new_unchecked(b) ELSE b
     IN /\ heap' = [heap EXCEPT ![o] =
                      [Unalloc EXCEPT !.state = "live", !.meta = m,
                                      !.boxed = (t = "Box"),
                                      !.strong = IF ops \in CountedKinds
                                                 THEN 1 ELSE 0]]
        /\ handles' = Put(handles, h)
        /\ last' = Last("new", NullPtr, Deref(h), h, TRUE, 0, 0)
  /\ UNCHANGED <<ops, stored>>

\* Clone::clone on a live handle (Rc, Arc, &T, UnsafeRef).
CloneHandle(h) ==
  /\ BagIn(h, handles)
  /\ h.type \in {"Rc", "Arc", "Ref", "UnsafeRef"}
  /\ \A o \in ObjsOfAlloc(h.addr) :
       IF h.type \in {"Rc", "Arc"} THEN heap[o].strong < MaxStrong
       ELSE Copies(o) < MaxCopies
  /\ LET c == Clone(heap, h, NextFree)
     IN /\ heap' = c.heap
        /\ handles' = Put(handles, c.handle)
        /\ last' = Last("clone", NullPtr, Deref(h), c.handle, TRUE,
                        StrongAt(heap, ObjsOfAlloc(h.addr)),
                        WeakAt(heap, ObjsOfAlloc(h.addr)))
  /\ UNCHANGED <<ops, stored>>

\* A handle goes out of scope. A Box that wrappers were built around may
\* only go while no wrapper and no stored address of its object is left
\* (the guarantee UnsafeRef and UnsafeMut ask of their user).
DropStep(h) ==
  /\ BagIn(h, handles)
  /\ h.type # "Weak"
  /\ (h.type = "Box" /\ ops \in UncheckedKinds) =>
       \A o \in ObjsOfAlloc(h.addr) : Copies(o) = 1
  /\ heap' = DropHandle(heap, h)
  /\ handles' = Take(handles, h)
  /\ last' = Last("drop", NullPtr, Deref(h), h, TRUE,
                  StrongAt(heap, ObjsOfAlloc(h.addr)),
                  WeakAt(heap, ObjsOfAlloc(h.addr)))
  /\ UNCHANGED <<ops, stored>>

\* Rc::downgrade / Arc::downgrade on a live handle.
Downgrade(h) ==
  /\ BagIn(h, handles)
  /\ h.type \in {"Rc", "Arc"}
  /\ \A o \in ObjsOfAlloc(h.addr) : heap[o].weak < MaxWeak
  /\ heap' = [o \in Obj |-> IF o \in ObjsOfAlloc(h.addr)
                            THEN [heap[o] EXCEPT !.weak = @ + 1] ELSE heap[o]]
  /\ handles' = Put(handles, Handle("Weak", h.addr, h.meta))
  /\ last' = Last("downgrade", NullPtr, Deref(h), h, TRUE,
                  StrongAt(heap, ObjsOfAlloc(h.addr)),
                  WeakAt(heap, ObjsOfAlloc(h.addr)))
  /\ UNCHANGED <<ops, stored>>

\* A Weak handle goes out of scope.
DropWeak(w) ==
  /\ BagIn(w, handles)
  /\ w.type = "Weak"
  /\ heap' = DropHandle(heap, w)
  /\ handles' = Take(handles, w)
  /\ last' = Last("drop_weak", NullPtr, NullPtr, w, TRUE,
                  StrongAt(heap, ObjsOfAlloc(w.addr)),
                  WeakAt(heap, ObjsOfAlloc(w.addr)))
  /\ UNCHANGED <<ops, stored>>

\* Weak::upgrade: one more strong handle while the value is alive.
Upgrade(w) ==
  /\ BagIn(w, handles)
  /\ w.type = "Weak"
  /\ \A o \in ObjsOfAlloc(w.addr) :
       heap[o].strong >= 1 /\ heap[o].strong < MaxStrong
  /\ LET u == Handle(BaseOf(ops), w.addr, w.meta)
         h == IF ops \in PinKinds THEN Pin_new_unchecked(u) ELSE u
     IN /\ heap' = [o \in Obj |-> IF o \in ObjsOfAlloc(w.addr)
                                  THEN [heap[o] EXCEPT !.strong = @ + 1]
                                  ELSE heap[o]]
        /\ handles' = Put(handles, h)
        /\ last' = Last("upgrade", NullPtr, Deref(h), h, TRUE,
                        StrongAt(heap, ObjsOfAlloc(w.addr)),
                        WeakAt(heap, ObjsOfAlloc(w.addr)))
  /\ UNCHANGED <<ops, stored>>

\* ----------------------------------------------------- unchecked wrappers
\* UnsafeRef::from_box / UnsafeMut::from_box (and Pin::new_unchecked of it
\* for a pinned policy).
FromBox(b) ==
  /\ ops \in UncheckedKinds
  /\ BagIn(b, handles)
  /\ b.type = "Box"
  /\ LET u == IF BaseOf(ops) = "UnsafeRef" THEN UnsafeRef_from_box(b)
              ELSE UnsafeMut_from_box(b)
         w == IF ops \in PinKinds THEN Pin_new_unchecked(u) ELSE u
     IN /\ handles' = Put(Take(handles, b), w)
        /\ heap' = [o \in Obj |-> IF o \in ObjsOfAlloc(b.addr)
                                  THEN [heap[o] EXCEPT !.boxed = FALSE]
                                  ELSE heap[o]]
        /\ last' = Last("from_box", NullPtr, Deref(w), w, TRUE, 0, 0)
  /\ UNCHANGED <<ops, stored>>

\* UnsafeRef::into_box / UnsafeMut::into_box. Its safety condition: this is
\* the only wrapper of the object and the object is in no collection.
IntoBox(w) ==
  /\ ops \in UncheckedKinds
  /\ BagIn(w, handles)
  /\ w.type \in {"UnsafeRef", "UnsafeMut"}
  /\ \A o \in ObjsOfAlloc(w.addr) : Copies(o) = 1 /\ heap[o].state = "live"
  /\ LET u == Pin_into_inner_unchecked(w)
         b == IF w.type = "UnsafeRef" THEN UnsafeRef_into_box(u)
              ELSE UnsafeMut_into_box(u)
     IN /\ handles' = Put(Take(handles, w), b)
        /\ heap' = [o \in Obj |-> IF o \in ObjsOfAlloc(w.addr)
                                  THEN [heap[o] EXCEPT !.boxed = TRUE]
                                  ELSE heap[o]]
        /\ last' = Last("into_box", NullPtr, Deref(b), b, TRUE, 0, 0)
  /\ UNCHANGED <<ops, stored>>

\* UnsafeRef::from_raw / UnsafeMut::from_raw on the address of an object
\* some handle points to: one more wrapper around that address.
WrapRaw(h) ==
  /\ ops \in UncheckedKinds
  /\ BagIn(h, handles)
  /\ \A o \in ObjsOfAlloc(h.addr) : Copies(o) < MaxCopies
  /\ LET u == IF BaseOf(ops) = "UnsafeRef" THEN UnsafeRef_from_raw(Deref(h))
              ELSE UnsafeMut_from_raw(AsMut(Deref(h)))
         w == IF ops \in PinKinds THEN Pin_new_unchecked(u) ELSE u
     IN /\ handles' = Put(handles, w)
        /\ last' = Last("wrap_raw", Deref(h), Deref(w), w, TRUE, 0, 0)
  /\ UNCHANGED <<ops, heap, stored>>

\* ----------------------------------------------------- collection actions
\* Insertion: the collection turns a handle into a raw address and stores it.
IntoRaw(h) ==
  /\ BagIn(h, handles)
  /\ IsPointerOf(ops, h)
  /\ LET r == into_raw(ops, heap, h)
     IN /\ heap' = r.heap
        /\ handles' = Take(handles, h)
        /\ stored' = Put(stored, r.raw)
        /\ last' = Last("into_raw", r.raw, Deref(h), h, TRUE,
                        StrongAt(heap, ObjsOfAlloc(h.addr)),
                        WeakAt(heap, ObjsOfAlloc(h.addr)))
  /\ UNCHANGED ops

\* Removal: a stored raw address is turned back into a handle. The address
\* was returned by into_raw and is reconstructed once (the safety condition
\* of from_raw).
FromRaw(raw) ==
  /\ BagIn(raw, stored)
  /\ LET h == from_raw(ops, raw)
     IN /\ handles' = Put(handles, h)
        /\ stored' = Take(stored, raw)
        /\ last' = Last("from_raw", raw, Deref(h), h, TRUE,
                        StrongAt(heap, ObjsAt(ops, raw.addr)),
                        WeakAt(heap, ObjsAt(ops, raw.addr)))
  /\ UNCHANGED <<ops, heap>>

\* try_get_mut on a stored address (representations with TryExclusive or
\* Exclusive access).
TryGetMut(raw) ==
  /\ ops \in ExclusiveKinds \cup CountedKinds
  /\ BagIn(raw, stored)
  /\ LET res == try_get_mut(ops, heap, raw)
     IN /\ heap' = res.heap
        /\ last' = Last("try_get_mut", raw, res.ptr, NoHandle, res.present,
                        StrongAt(heap, ObjsAt(ops, raw.addr)),
                        WeakAt(heap, ObjsAt(ops, raw.addr)))
  /\ UNCHANGED <<ops, handles, stored>>

\* get_mut on a stored address (representations with Exclusive access).
GetMut(raw) ==
  /\ ops \in ExclusiveKinds
  /\ BagIn(raw, stored)
  /\ last' = Last("get_mut", raw, get_mut(raw), NoHandle, TRUE, 0, 0)
  /\ UNCHANGED <<ops, heap, handles, stored>>

\* clone_pointer_from_raw on a stored address (Pointer: Clone); panics says
\* whether Pointer::clone unwinds.
CloneFromRaw(raw, panics) ==
  /\ BaseOf(ops) # "UnsafeMut"
  /\ BagIn(raw, stored)
  /\ BaseOf(ops) = "Box" => FreeObjs # {}
  /\ \A o \in ObjsAt(ops, raw.addr) :
       IF ops \in CountedKinds THEN heap[o].strong < MaxStrong
       ELSE BaseOf(ops) = "Box" \/ Copies(o) < MaxCopies
  /\ LET res == clone_pointer_from_raw(ops, heap, raw, panics, NextFree)
     IN /\ heap' = res.heap
        /\ handles' = IF res.panicked THEN handles
                      ELSE Put(handles, res.handle)
        /\ last' = Last("clone_from_raw", raw, NullPtr, res.handle,
                        ~res.panicked,
                        StrongAt(heap, ObjsAt(ops, raw.addr)),
                        WeakAt(heap, ObjsAt(ops, raw.addr)))
  /\ UNCHANGED <<ops, stored>>

\* ------------------------------------------------------------------ Next
Next ==
  \/ \E m \in Metas : UNCHANGED call /\ New(m)
  \/ \E h \in BagToSet(handles) : UNCHANGED call /\ CloneHandle(h)
  \/ \E h \in BagToSet(handles) : UNCHANGED call /\ DropStep(h)
  \/ \E h \in BagToSet(handles) : UNCHANGED call /\ Downgrade(h)
  \/ \E w \in BagToSet(handles) : UNCHANGED call /\ DropWeak(w)
  \/ \E w \in BagToSet(handles) : UNCHANGED call /\ Upgrade(w)
  \/ \E b \in BagToSet(handles) : UNCHANGED call /\ FromBox(b)
  \/ \E w \in BagToSet(handles) : UNCHANGED call /\ IntoBox(w)
  \/ \E h \in BagToSet(handles) : UNCHANGED call /\ WrapRaw(h)
  \/ \E h \in BagToSet(handles) : UNCHANGED call /\ IntoRaw(h)
  \/ \E raw \in BagToSet(stored) : UNCHANGED call /\ FromRaw(raw)
  \/ \E raw \in BagToSet(stored) : UNCHANGED call /\ TryGetMut(raw)
  \/ \E raw \in BagToSet(stored) : UNCHANGED call /\ GetMut(raw)
  \/ \E raw \in BagToSet(stored), panics \in BOOLEAN : UNCHANGED call /\ CloneFromRaw(raw, panics)

Spec == Init /\ [][Next]_vars

\* ============================================== the calls, step by step
\* The second specification takes try_get_mut of the Arc impls and
\* clone_pointer_from_raw one step at a time. The collection's execution
\* context is inside at most one call; handles the client holds elsewhere
\* are cloned, dropped, downgraded and upgraded between any two steps when
\* the representation is Arc (the only one that may be shared between
\* execution contexts), and between calls otherwise.

\* Faulty variant: the count is read without taking the weak lock
Arc_weak_lock_skipped(hp, arc) == TRUE

\* Arc::is_unique, first half: weak.compare_exchange(1, usize::MAX). The
\* counter holds 1 exactly when no Weak handle exists.
Arc_weak_lock(hp, arc) ==
  /\ ObjsOfAlloc(arc.addr) # {}
  /\ \A o \in ObjsOfAlloc(arc.addr) : hp[o].weak = 0

\* Arc::is_unique, second half: strong.load(Acquire)
Arc_strong_load(hp, arc) == StrongAt(hp, ObjsOfAlloc(arc.addr))

\* The weak counter is locked: Arc::downgrade spins until it is released.
WeakLocked == call.op = "try_get_mut" /\ call.pc \in {"load", "unlock"}

\* Other execution contexts run between the steps of a call only for Arc.
Interleaves == call.pc = "idle" \/ BaseOf(ops) = "Arc"

\* let mut arc = Arc::from_raw(value);
TgmBegin(raw) ==
  /\ call.pc = "idle"
  /\ BaseOf(ops) = "Arc"
  /\ BagIn(raw, stored)
  /\ call' = [Idle EXCEPT !.pc = "cas", !.op = "try_get_mut", !.raw = raw,
                          !.h = Arc_from_raw(raw),
                          !.trace = <<"from_raw">>,
                          !.count = StrongAt(heap, ObjsAt(ops, raw.addr)),
                          !.weak = WeakAt(heap, ObjsAt(ops, raw.addr))]
  /\ UNCHANGED <<ops, heap, handles, stored, last>>

\* Arc::get_mut -> is_unique: the weak counter is locked, or the answer is
\* None at once.
TgmCas ==
  /\ call.op = "try_get_mut" /\ call.pc = "cas"
  /\ call' = IF Arc_weak_lock(heap, call.h)
             THEN [call EXCEPT !.pc = "load", !.trace = Append(@, "lock")]
             ELSE [call EXCEPT !.pc = "back", !.present = FALSE,
                               !.trace = Append(@, "lock_failed")]
  /\ UNCHANGED <<ops, heap, handles, stored, last>>

\* the strong count is read while the weak counter is locked
TgmLoad ==
  /\ call.op = "try_get_mut" /\ call.pc = "load"
  /\ call' = [call EXCEPT !.pc = "unlock",
                          !.seen = Arc_strong_load(heap, call.h),
                          !.trace = Append(@, "load")]
  /\ UNCHANGED <<ops, heap, handles, stored, last>>

\* weak.store(1); get_mut answers Some(&mut T) iff the count read was 1
TgmUnlock ==
  /\ call.op = "try_get_mut" /\ call.pc = "unlock"
  /\ call' = [call EXCEPT !.pc = "back", !.present = (call.seen = 1),
                          !.trace = Append(@, "unlock")]
  /\ UNCHANGED <<ops, heap, handles, stored, last>>

\* drop(Arc::into_raw(arc))
TgmBack ==
  /\ call.op = "try_get_mut" /\ call.pc = "back"
  /\ call' = [call EXCEPT !.pc = "done", !.back = Arc_into_raw(call.h),
                          !.trace = Append(@, "into_raw")]
  /\ UNCHANGED <<ops, heap, handles, stored, last>>

\* the answer is returned
TgmReturn ==
  /\ call.op = "try_get_mut" /\ call.pc = "done"
  /\ last' = Last("try_get_mut", call.raw,
                  IF call.present THEN AsMut(Deref(call.h)) ELSE NullPtr,
                  NoHandle, call.present, call.count, call.weak)
  /\ call' = Idle
  /\ UNCHANGED <<ops, heap, handles, stored>>

\* holder = PointerGuard { pointer: ManuallyDrop::new(from_raw(ptr)), .. }
CfrBegin(raw) ==
  /\ call.pc = "idle"
  /\ BaseOf(ops) # "UnsafeMut"
  /\ BagIn(raw, stored)
  /\ call' = [Idle EXCEPT !.pc = "dup", !.op = "clone_from_raw", !.raw = raw,
                          !.h = from_raw(ops, raw),
                          !.trace = <<"from_raw">>,
                          !.count = StrongAt(heap, ObjsAt(ops, raw.addr)),
                          !.weak = WeakAt(heap, ObjsAt(ops, raw.addr))]
  /\ UNCHANGED <<ops, heap, handles, stored, last>>

\* holder.pointer.deref().clone(), which returns or unwinds
CfrDup(panics) ==
  /\ call.op = "clone_from_raw" /\ call.pc = "dup"
  /\ ~panics =>
       /\ BaseOf(ops) = "Box" => FreeObjs # {}
       /\ \A o \in ObjsAt(ops, call.raw.addr) :
            IF ops \in CountedKinds THEN heap[o].strong < MaxStrong
            ELSE BaseOf(ops) = "Box" \/ Copies(o) < MaxCopies
  /\ LET c == IF panics THEN [handle |-> NoHandle, heap |-> heap]
              ELSE Clone(heap, call.h, NextFree)
     IN /\ heap' = c.heap
        /\ call' = [call EXCEPT !.pc = "guard", !.res = c.handle,
                                !.present = ~panics,
                                !.trace = Append(@, IF panics THEN "panic"
                                                    ELSE "clone")]
  /\ UNCHANGED <<ops, handles, stored, last>>

\* holder goes out of scope: Drop for PointerGuard
CfrGuard ==
  /\ call.op = "clone_from_raw" /\ call.pc = "guard"
  /\ LET g == PointerGuard_drop(ops, heap, call.h)
     IN /\ heap' = g.heap
        /\ call' = [call EXCEPT !.pc = "done", !.back = g.raw,
                                !.dtor = (g.heap # heap),
                                !.trace = Append(@, "into_raw")]
  /\ UNCHANGED <<ops, handles, stored, last>>

\* the clone is returned, or the panic goes on to the caller
CfrReturn ==
  /\ call.op = "clone_from_raw" /\ call.pc = "done"
  /\ handles' = IF call.present THEN Put(handles, call.res) ELSE handles
  /\ last' = Last("clone_from_raw", call.raw, NullPtr, call.res,
                  call.present, call.count, call.weak)
  /\ call' = Idle
  /\ UNCHANGED <<ops, heap, stored>>

StepNext ==
  \/ \E m \in Metas : Interleaves /\ UNCHANGED call /\ New(m)
  \/ \E h \in BagToSet(handles) : Interleaves /\ UNCHANGED call /\ CloneHandle(h)
  \/ \E h \in BagToSet(handles) : Interleaves /\ UNCHANGED call /\ DropStep(h)
  \/ \E h \in BagToSet(handles) :
       Interleaves /\ ~WeakLocked /\ UNCHANGED call /\ Downgrade(h)
  \/ \E w \in BagToSet(handles) : Interleaves /\ UNCHANGED call /\ DropWeak(w)
  \/ \E w \in BagToSet(handles) : Interleaves /\ UNCHANGED call /\ Upgrade(w)
  \/ \E b \in BagToSet(handles) : call.pc = "idle" /\ UNCHANGED call /\ FromBox(b)
  \/ \E w \in BagToSet(handles) : call.pc = "idle" /\ UNCHANGED call /\ IntoBox(w)
  \/ \E h \in BagToSet(handles) : call.pc = "idle" /\ UNCHANGED call /\ WrapRaw(h)
  \/ \E h \in BagToSet(handles) :
       call.pc = "idle" /\ UNCHANGED call /\ IntoRaw(h)
  \/ \E raw \in BagToSet(stored) :
       call.pc = "idle" /\ UNCHANGED call /\ FromRaw(raw)
  \/ \E raw \in BagToSet(stored) : TgmBegin(raw)
  \/ TgmCas
  \/ TgmLoad
  \/ TgmUnlock
  \/ TgmBack
  \/ TgmReturn
  \/ \E raw \in BagToSet(stored) : CfrBegin(raw)
  \/ \E panics \in BOOLEAN : CfrDup(panics)
  \/ CfrGuard
  \/ CfrReturn

SpecSteps == Init /\ [][StepNext]_vars

\* ---------------------------------------------------- capability tiers
UnpinnedKinds == Kinds \ PinKinds

\* DefaultPointerOps<Pin<P>> for DefaultPointerOps<P>
PinOf(k) ==
  CASE k = "Ref" -> "PinRef"
    [] k = "UnsafeRef" -> "PinUnsafeRef"
    [] k = "UnsafeMut" -> "PinUnsafeMut"
    [] k = "Box" -> "PinBox"
    [] k = "Rc" -> "PinRc"
    [] k = "Arc" -> "PinArc"
    [] OTHER -> k

\* The strongest access trait DefaultPointerOps<k> implements.
Tier(k) ==
  IF k \in ExclusiveKinds THEN "exclusive"
  ELSE IF k \in CountedKinds THEN "try_exclusive"
  ELSE "none"

\* ================================================================ claims
TheObjs == ObjsAt(ops, last.raw.addr)

\* C1: for every representation, the raw address into_raw returns is the
\* address the handle dereferenced to, and from_raw on a stored address
\* gives a handle of the policy's Pointer type that dereferences to that
\* same address and points to the object that lives there.
C1_RoundTripAddress ==
  /\ last.op = "into_raw" => last.raw.addr = last.ptr.addr
  /\ last.op = "from_raw" =>
       /\ last.ptr.addr = last.raw.addr
       /\ IsPointerOf(ops, last.h)
       /\ TheObjs # {}
       /\ ObjsOfAlloc(last.h.addr) = TheObjs
       /\ into_raw(ops, heap, last.h).raw.addr = last.raw.addr

C1_Witness ==
  /\ last.op = "from_raw"
  /\ ops = "PinRc"
  /\ BagIn(last.h, handles)
  /\ \E o \in TheObjs : heap[o].state = "live"

\* C2: the metadata half of a fat pointer is the same on the handle before
\* into_raw, in the raw address into_raw returns and on the handle from_raw
\* rebuilds (it is the metadata the object was created with).
C2_MetadataPreserved ==
  /\ last.op = "into_raw" =>
       /\ last.raw.meta = last.ptr.meta
       /\ last.raw.meta = last.h.meta
       /\ \A o \in TheObjs : last.raw.meta = heap[o].meta
  /\ last.op = "from_raw" =>
       /\ last.ptr.meta = last.raw.meta
       /\ last.h.meta = last.raw.meta
       /\ \A o \in TheObjs : last.h.meta = heap[o].meta

C2_Witness ==
  /\ last.op = "from_raw"
  /\ ops \in OwningKinds
  /\ last.raw.meta # 0
  /\ last.ptr = last.raw

\* C3 as stated: for Rc, Arc and their Pin variants try_get_mut answers
\* present if and only if the strong count is exactly 1.
C3_PresentIffStrongIsOne ==
  (ops \in CountedKinds /\ last.op = "try_get_mut") =>
    (last.present <=> last.count = 1)

\* C3 amended: for Rc, Arc and their Pin variants try_get_mut answers
\* present if and only if the strong count is exactly 1 and no Weak handle
\* of the object exists; the projection it returns is the stored address.
C3_PresentIffUnique ==
  (ops \in CountedKinds /\ last.op = "try_get_mut") =>
    /\ last.present <=> (last.count = 1 /\ last.weak = 0)
    /\ last.present => last.ptr = AsMut(last.raw)

C3_Witness ==
  /\ ops \in CountedKinds
  /\ last.op = "try_get_mut"
  /\ ~last.present
  /\ last.count = 2
  /\ last.weak = 0

\* C4: after clone_pointer_from_raw returned on a stored address of a
\* reference-counted representation, the strong count is one more than
\* before, the address is still stored, the object is alive, the new handle
\* is live, and every stored address and live handle has its own strong
\* reference (so the slot can still be rebuilt by from_raw).
C4_CloneAddsOneStrong ==
  (ops \in CountedKinds /\ last.op = "clone_from_raw" /\ last.present) =>
    /\ TheObjs # {}
    /\ BagIn(last.raw, stored)
    /\ IsPointerOf(ops, last.h)
    /\ BagIn(last.h, handles)
    /\ \A o \in TheObjs :
         /\ heap[o].strong = last.count + 1
         /\ heap[o].state = "live"
         /\ heap[o].strong = Copies(o)

C4_Witness ==
  /\ ops \in CountedKinds
  /\ last.op = "clone_from_raw"
  /\ last.present
  /\ last.count = 1
  /\ \E o \in TheObjs : heap[o].strong = 2 /\ StoredCount(o) = 1

\* C5: when the duplication inside clone_pointer_from_raw panics, no handle
\* is produced, the strong count is what it was, the object is alive and
\* was never destroyed, nothing is leaked (the count equals the live handles
\* plus the stored addresses) and the address is still stored.
C5_ClonePanicLeavesSlotIntact ==
  (ops \in CountedKinds /\ last.op = "clone_from_raw" /\ ~last.present) =>
    /\ TheObjs # {}
    /\ BagIn(last.raw, stored)
    /\ last.h = NoHandle
    /\ \A o \in TheObjs :
         /\ heap[o].strong = last.count
         /\ heap[o].state = "live"
         /\ heap[o].drops = 0
         /\ heap[o].strong = Copies(o)

C5_Witness ==
  /\ ops \in CountedKinds
  /\ last.op = "clone_from_raw"
  /\ ~last.present
  /\ \E o \in TheObjs : heap[o].strong = 1 /\ StoredCount(o) = 1

\* C6: for Box, UnsafeMut and their Pin variants get_mut is defined on every
\* stored address in every state, and the pointer it returns is mutable and
\* has the address and the metadata of the raw address passed in.
C6_GetMutSameAddress ==
  ops \in ExclusiveKinds =>
    /\ \A r \in BagToSet(stored) :
         /\ get_mut(r).addr = r.addr
         /\ get_mut(r).meta = r.meta
         /\ get_mut(r).mut
    /\ last.op = "get_mut" =>
         /\ last.present
         /\ last.ptr.addr = last.raw.addr
         /\ last.ptr.meta = last.raw.meta
         /\ last.ptr.mut
         /\ \A o \in TheObjs : last.ptr.meta = heap[o].meta

C6_Witness ==
  /\ ops \in ExclusiveKinds
  /\ last.op = "get_mut"
  /\ last.raw.meta # 0
  /\ BagIn(last.raw, stored)

\* C7: for a representation with exclusive access, try_get_mut always
\* answers present and the projection is what get_mut returns for the same
\* address.
C7_TryGetMutDerived ==
  (ops \in ExclusiveKinds /\ last.op = "try_get_mut") =>
    /\ last.present
    /\ last.ptr = get_mut(last.raw)

C7_Witness ==
  /\ ops \in ExclusiveKinds
  /\ last.op = "try_get_mut"
  /\ last.present
  /\ BagIn(last.raw, stored)

Reclaimed(o) == heap[o].state \in {"dropped", "freed"}

\* C8: for Box, Rc, Arc and their Pin variants, an object whose address is
\* stored (converted by into_raw and not yet rebuilt by from_raw) is alive
\* and was never destroyed; into_raw itself reclaims nothing; an object is
\* reclaimed once at most, by the destruction of a handle of its ownership
\* kind, when no stored address of it is left.
C8_StoredObjectNotReclaimed ==
  ops \in OwningKinds =>
    /\ \A o \in Obj :
         /\ StoredCount(o) > 0 => (heap[o].state = "live" /\ heap[o].drops = 0)
         /\ Reclaimed(o) => /\ heap[o].drops = 1
                            /\ heap[o].freedBy = BaseOf(ops)
                            /\ StoredCount(o) = 0
         /\ heap[o].drops <= 1
    /\ last.op = "into_raw" =>
         /\ BagIn(last.raw, stored)
         /\ TheObjs # {}
         /\ \A o \in TheObjs : heap[o].state = "live"

C8_Witness ==
  /\ ops \in OwningKinds
  /\ last.op = "into_raw"
  /\ \E o \in TheObjs :
       /\ StoredCount(o) = 1
       /\ HandleCount(o) = 0
       /\ heap[o].state = "live"

Wrappers == {"UnsafeRef", "UnsafeMut"}

\* C9: under UnsafeRef, UnsafeMut and their Pin variants, a wrapper going
\* out of scope leaves its object alive, however the wrapper was made
\* (from_raw, from_box, clone); an object is deallocated only by the
\* destruction of a Box that owns it (after from_box, the Box into_box gave
\* back), and once at most.
C9_WrappersNeverDeallocate ==
  ops \in UncheckedKinds =>
    /\ \A o \in Obj :
         Reclaimed(o) => /\ heap[o].freedBy = "Box"
                         /\ heap[o].boxed
                         /\ heap[o].drops = 1
    /\ (last.op = "drop" /\ last.h.type \in Wrappers) =>
         /\ ObjsOfAlloc(last.h.addr) # {}
         /\ \A o \in ObjsOfAlloc(last.h.addr) :
              heap[o].state = "live" /\ heap[o].drops = 0

C9_Witness ==
  /\ ops \in UncheckedKinds
  /\ last.op = "drop"
  /\ last.h.type \in Wrappers
  /\ \E o \in ObjsOfAlloc(last.h.addr) :
       /\ Copies(o) = 0
       /\ ~heap[o].boxed
       /\ heap[o].state = "live"

\* C10: a try_get_mut step, present or absent, leaves the heap (strong and
\* weak counts, liveness of every object), the stored addresses and the live
\* handles as they were.
C10_TryGetMutFrame ==
  [][last'.op = "try_get_mut" =>
       (heap' = heap /\ stored' = stored /\ handles' = handles)]_vars

C10_Witness ==
  /\ ops \in CountedKinds
  /\ last.op = "try_get_mut"
  /\ last.present
  /\ \E o \in TheObjs : heap[o].strong = 1 /\ heap[o].state = "live"

CallObjs == ObjsAt(ops, call.raw.addr)

\* C11: in every interleaving of a try_get_mut call of the Arc impls with
\* clones, drops, downgrades and upgrades on other execution contexts, an
\* answer of present means that the strong count read under the weak lock
\* was 1, and from that read until the call returns the stored address holds
\* the only strong reference: the count is 1, no other strong handle is
\* live and the object is alive.
C11_PresentOnlyWhenSole ==
  (call.op = "try_get_mut" /\ call.pc \in {"back", "done"} /\ call.present) =>
    /\ call.seen = 1
    /\ CallObjs # {}
    /\ \A o \in CallObjs :
         /\ heap[o].strong = 1
         /\ HandleCount(o) = 0
         /\ heap[o].state = "live"

\* the second strong reference was dropped by another execution context
\* after the call began and before its check
C11_Witness ==
  /\ call.op = "try_get_mut"
  /\ call.pc = "done"
  /\ call.present
  /\ call.count = 2
  /\ call.seen = 1

\* C12: &T and UnsafeRef have no access tier, Box and UnsafeMut the
\* exclusive one, Rc and Arc the try-exclusive one, and a pinned variant has
\* the tier of its underlying kind; get_mut and try_get_mut are only ever
\* called within the tier; and on every live handle and every stored address
\* the pinned impl and the unpinned impl give the same raw address, a handle
\* of the same type to the same address and metadata, and the same
\* try_get_mut answer.
C12_TiersAndPinnedVariants ==
  /\ Tier("Ref") = "none" /\ Tier("UnsafeRef") = "none"
  /\ Tier("Box") = "exclusive" /\ Tier("UnsafeMut") = "exclusive"
  /\ Tier("Rc") = "try_exclusive" /\ Tier("Arc") = "try_exclusive"
  /\ \A k \in UnpinnedKinds : Tier(PinOf(k)) = Tier(k)
  /\ last.op = "get_mut" => Tier(ops) = "exclusive"
  /\ last.op = "try_get_mut" => Tier(ops) # "none"
  /\ LET k == BaseOf(ops)
         pk == PinOf(k)
     IN /\ \A raw \in BagToSet(stored) :
             /\ Deref(from_raw(pk, raw)) = Deref(from_raw(k, raw))
             /\ from_raw(pk, raw) = Pin_new_unchecked(from_raw(k, raw))
             /\ Tier(k) # "none" =>
                  try_get_mut(pk, heap, raw) = try_get_mut(k, heap, raw)
        /\ \A h \in BagToSet(handles) :
             IsPointerOf(ops, h) =>
               into_raw(pk, heap, Pin_new_unchecked(h)) =
                 into_raw(k, heap, Pin_into_inner_unchecked(h))

C12_Witness ==
  /\ ops = "PinArc"
  /\ last.op = "try_get_mut"
  /\ ~last.present
  /\ BagIn(last.raw, stored)
  /\ try_get_mut("Arc", heap, last.raw).present = last.present

\* C13: inside clone_pointer_from_raw the steps come in the order from_raw,
\* duplication (which returns or panics), into_raw; when the call is about
\* to leave, on either path, the temporary handle has been turned back into
\* the raw address it was rebuilt from, once, after the duplication, and its
\* destructor has not run: the object is alive and was never destroyed.
C13_GuardReleasesAfterDup ==
  call.op = "clone_from_raw" =>
    /\ call.pc = "dup" => call.trace = <<"from_raw">>
    /\ call.pc = "guard" =>
         /\ call.trace \in {<<"from_raw", "clone">>, <<"from_raw", "panic">>}
         /\ call.back = NullPtr
    /\ call.pc = "done" =>
         /\ call.trace \in {<<"from_raw", "clone", "into_raw">>,
                            <<"from_raw", "panic", "into_raw">>}
         /\ call.present <=> call.trace[2] = "clone"
         /\ call.back = call.raw
         /\ ~call.dtor
    /\ IsPointerOf(ops, call.h)
    /\ CallObjs # {}
    /\ \A o \in CallObjs : heap[o].state = "live" /\ heap[o].drops = 0

C13_Witness ==
  /\ call.op = "clone_from_raw"
  /\ call.pc = "done"
  /\ ops \in CountedKinds
  /\ call.trace = <<"from_raw", "panic", "into_raw">>
  /\ \A o \in CallObjs : heap[o].strong = call.count

\* C14: for Rc, Arc and their Pin variants, in every reachable state the
\* strong count of an allocated object equals the number of live owning
\* handles plus the number of stored raw addresses of it; the object is
\* reclaimed exactly when that number has reached zero, never while a handle
\* or a stored address is left, and never twice.
C14_StrongCountConserved ==
  ops \in CountedKinds =>
    \A o \in Obj :
      /\ heap[o].strong = Copies(o)
      /\ heap[o].state = "live" <=> Copies(o) > 0
      /\ Reclaimed(o) <=> (heap[o].state # "unalloc" /\ Copies(o) = 0)
      /\ heap[o].drops = (IF Reclaimed(o) THEN 1 ELSE 0)
      /\ Reclaimed(o) => heap[o].freedBy = BaseOf(ops)

C14_Witness ==
  /\ ops \in CountedKinds
  /\ last.op = "clone_from_raw"
  /\ \E o \in Obj :
       /\ heap[o].strong = 2
       /\ HandleCount(o) = 1
       /\ StoredCount(o) = 1

====
